---- MODULE Spec2Model ----
(***************************************************************************)
(* Model of the batch scheduler of backend/video_processing:               *)
(* BatchVideoProcessor (batch_processor.py): the priority job queue, the   *)
(* worker pool, the job lifecycle, the registries and the statistics.      *)
(*                                                                         *)
(* Concurrency is asyncio's: one event loop, so every coroutine runs       *)
(* without interruption from one suspension point to the next.  An action  *)
(* of this model is one such uninterrupted run.  The suspension points of  *)
(* the scheduler are: a worker task that has been created but has not run  *)
(* yet, the wait in job_queue.get(), the await of the Render Engine call   *)
(* (an external collaborator that may take arbitrarily long, return or     *)
(* raise), and the await of asyncio.gather in start_batch_processing.      *)
(*                                                                         *)
(* Every read of datetime.utcnow() within one uninterrupted run returns    *)
(* the same instant; between runs the clock may stand still or advance.    *)
(***************************************************************************)
EXTENDS Integers, Sequences, FiniteSets, TLC

(* ----------------------------- bounds ---------------------------------- *)
\* number of Job Records ever created (submit and retry together)
MaxJobs == 2
\* number of times the worker pool is started
MaxGen == 3
\* number of stop_batch_processing calls
MaxStops == 1
\* last instant of the clock
MaxTime == 1
\* BatchVideoProcessor(max_concurrent_jobs=...)
max_concurrent_jobs == 1
\* number of assets the clients add to the timeline
MaxAssets == 2
\* last start_time of an asset a client adds
MaxStart == 3
\* number of tracks of the timeline, the three default tracks included
MaxTracks == 4
\* number of lines of a script
MaxLines == 4
\* number of effects an asset carries when a template is applied once more
MaxEffects == 2

(* ------------------------ enumerations --------------------------------- *)
QUEUED == "queued"
PROCESSING == "processing"
COMPLETED == "completed"
FAILED == "failed"
CANCELLED == "cancelled"
BatchJobStatus == {QUEUED, PROCESSING, COMPLETED, FAILED, CANCELLED}
Terminal == {COMPLETED, FAILED, CANCELLED}

LOW == 1
NORMAL == 2
HIGH == 3
URGENT == 4
BatchJobPriority == {LOW, NORMAL, HIGH, URGENT}

\* Python's None for the optional fields of a BatchJob
None == "None"
\* None for the optional datetime fields
NoTime == -1
\* None where a job id is expected
NoJobId == 0

(* ------------------------- inputs -------------------------------------- *)
\* the request parameters a caller passes to submit_batch_job
Requests ==
  { [script_content |-> "s1", voice_audio_base64 |-> None, template_id |-> "minimal",
     quality |-> "1080p", background_config |-> "bg0", project_id |-> <<"none", 0>>],
    [script_content |-> "s2", voice_audio_base64 |-> "v2", template_id |-> "professional",
     quality |-> "720p", background_config |-> "bg2", project_id |-> <<"given", 1>>] }

\* project_id = project_id or str(uuid.uuid4()): the caller's id, or a fresh one
ProjectIdOf(req, job_id) ==
  IF req.project_id = <<"none", 0>> THEN <<"uuid", job_id>> ELSE req.project_id

VARIABLES
  jobs,            \* the BatchJob objects ever created, by job id (1..Len(jobs))
  job_queue,       \* asyncio.PriorityQueue: set of (priority.value, time, job)
  active_jobs,     \* dict, as the sequence of its keys in insertion order
  completed_jobs,  \* dict, as the sequence of its keys in insertion order
  job_history,     \* list of jobs (job ids)
  is_processing,
  worker_tasks,    \* the set of workers self.worker_tasks holds
  workers,         \* every worker task ever created: [pc, job, cancel]
  starters,        \* start_batch_processing calls suspended in gather
  stats,
  now,             \* the clock
  returned,        \* job ids whose submit_batch_job call has returned
  dequeued,        \* per job id, how many times job_queue.get() delivered it
  pruned,          \* job ids cleanup_old_jobs has removed from completed_jobs
  stops,           \* number of stop_batch_processing calls so far
  progress_callbacks,  \* dict job id -> callbacks, as the set of its keys
  callback_calls,  \* the calls made to registered callbacks: [job, progress, stage]
  tracks,          \* Timeline.tracks: list of Track, each with its list of assets
  duration,        \* Timeline.duration, in ticks
  metadata,        \* Timeline.metadata: the template recorded, or None
  uuids,           \* number of TimelineAsset ids issued so far
  script,          \* the script the segmenter was last given: list of lines
  segments         \* the segments the segmenter last returned

vars == <<jobs, job_queue, active_jobs, completed_jobs, job_history, is_processing,
          worker_tasks, workers, starters, stats, now, returned, dequeued, pruned,
          stops, progress_callbacks, callback_calls,
          tracks, duration, metadata, uuids, script, segments>>

\* the state of the Timeline and of the segmenter
timeline_vars == <<tracks, duration, metadata, uuids, script, segments>>

\* the state of the BatchVideoProcessor
batch_vars == <<jobs, job_queue, active_jobs, completed_jobs, job_history, is_processing,
                worker_tasks, workers, starters, stats, now, returned, dequeued, pruned,
                stops, progress_callbacks, callback_calls>>

(* ------------------------- helpers ------------------------------------- *)
Range(s) == { s[i] : i \in 1..Len(s) }

Max(a, b) == IF a >= b THEN a ELSE b

JobIds == 1..Len(jobs)

\* the jobs whose status is st
WithStatus(st) == { j \in JobIds : jobs[j].status = st }

\* del d[k]
DictDel(d, k) == SelectSeq(d, LAMBDA x : x # k)

\* d[k] = v: a new key goes last, an existing key keeps its place
DictSet(d, k) == IF k \in Range(d) THEN d ELSE Append(d, k)

\* the instants datetime.utcnow() may return in the next run
Clock == { t \in {now, now + 1} : t <= MaxTime }

\* times of the timeline are counted in ticks of a fifth of a second, the
\* resolution of the segmenter's (word_count / 150.0) * 60.0
TicksPerSecond == 5

\* Timeline(project_id, duration=60.0)
DefaultDuration == 60 * TicksPerSecond

\* Track(id, type, name, index) with the defaults of the dataclass
Track(id, type, name, index) ==
  [id |-> id, type |-> type, name |-> name, index |-> index, enabled |-> TRUE,
   muted |-> FALSE, locked |-> FALSE, assets |-> <<>>]

\* the tracks Timeline.__init__ creates; a track's id stands for its uuid
create_default_tracks ==
  <<Track(1, "video", "Video 1", 0),
    Track(2, "audio", "Audio 1", 1),
    Track(3, "subtitle", "Subtitles", 2)>>

\* BatchProcessingStats(0, 0, 0, 0, 0, 0, 0.0, 0.0, 0.0); the two quotients
\* are kept as <<numerator, denominator>>
InitStats ==
  [total_jobs |-> 0, queued_jobs |-> 0, processing_jobs |-> 0, completed_jobs |-> 0,
   failed_jobs |-> 0, cancelled_jobs |-> 0, average_processing_time |-> <<0, 1>>,
   total_processing_time |-> 0, success_rate |-> <<0, 1>>]

Init ==
  /\ jobs = <<>>
  /\ job_queue = {}
  /\ active_jobs = <<>>
  /\ completed_jobs = <<>>
  /\ job_history = <<>>
  /\ is_processing = FALSE
  /\ worker_tasks = {}
  /\ workers = <<>>
  /\ starters = {}
  /\ stats = InitStats
  /\ now = 0
  /\ returned = {}
  /\ dequeued = <<>>
  /\ pruned = {}
  /\ stops = 0
  /\ progress_callbacks = {}
  /\ callback_calls = {}
  /\ tracks = create_default_tracks
  /\ duration = DefaultDuration
  /\ metadata = None
  /\ uuids = 0
  /\ script = <<>>
  /\ segments = <<>>


(* ----------------------- submit_batch_job ------------------------------ *)
\* BatchJob(...) as submit_batch_job constructs it
NewJob(job_id, req, priority, t) ==
  [project_id |-> ProjectIdOf(req, job_id),
   script_content |-> req.script_content,
   voice_audio_base64 |-> req.voice_audio_base64,
   template_id |-> req.template_id,
   quality |-> req.quality,
   background_config |-> req.background_config,
   priority |-> priority,
   status |-> QUEUED,
   progress |-> 0,
   created_at |-> t,
   started_at |-> NoTime,
   completed_at |-> NoTime,
   error |-> None,
   result |-> None,
   actual_duration |-> NoTime]

\* the item submit_batch_job puts on the queue
QueueItem(job_id, priority, t) == [priority |-> priority, time |-> t, job |-> job_id]

\* number of pool starts so far
Gen == Len(workers) \div max_concurrent_jobs

\* the worker tasks created by the g-th start
GenWorkers(g) == ((g - 1) * max_concurrent_jobs + 1)..(g * max_concurrent_jobs)

\* a freshly created worker task
NewWorker == [pc |-> "new", job |-> NoJobId, cancel |-> FALSE]

\* start_batch_processing up to its await of asyncio.gather, called for the
\* submission of job caller (NoJobId: called directly by a client)
StartPool(caller) ==
  /\ Gen < MaxGen
  /\ is_processing' = TRUE
  /\ workers' = workers \o [i \in 1..max_concurrent_jobs |-> NewWorker]
  /\ worker_tasks' = GenWorkers(Gen + 1)
  /\ starters' = starters \cup {[gen |-> Gen + 1, job |-> caller]}

\* submit_batch_job; a put whose (priority, time) ties with a queued item
\* makes the heap compare two BatchJob objects and is left out of the model
submit_batch_job(req, priority) ==
  /\ Len(jobs) < MaxJobs
  /\ \E t \in Clock :
       LET job_id == Len(jobs) + 1 IN
       /\ \A e \in job_queue : ~(e.priority = priority /\ e.time = t)
       /\ now' = t
       /\ jobs' = Append(jobs, NewJob(job_id, req, priority, t))
       /\ job_queue' = job_queue \cup {QueueItem(job_id, priority, t)}
       /\ stats' = [stats EXCEPT !.total_jobs = @ + 1, !.queued_jobs = @ + 1]
       /\ dequeued' = Append(dequeued, 0)
       /\ IF ~is_processing
            THEN /\ StartPool(job_id)
                 /\ UNCHANGED returned
            ELSE /\ returned' = returned \cup {job_id}
                 /\ UNCHANGED <<is_processing, workers, worker_tasks, starters>>
       /\ UNCHANGED <<active_jobs, completed_jobs, job_history, pruned, stops,
                      progress_callbacks, callback_calls, timeline_vars>>

\* the submissions the clients make: a request and a priority each
Submissions ==
  { <<req, priority>> \in Requests \X {NORMAL, HIGH} :
      (req.script_content = "s1") = (priority = NORMAL) }

SubmitBatchJob == \E sub \in Submissions : submit_batch_job(sub[1], sub[2])

(* --------------------- start / stop of the pool ------------------------ *)
\* start_batch_processing called by a client
StartBatchProcessing ==
  /\ ~is_processing
  /\ StartPool(NoJobId)
  /\ UNCHANGED <<jobs, job_queue, active_jobs, completed_jobs, job_history, stats,
                 now, returned, dequeued, pruned, stops,
                 progress_callbacks, callback_calls, timeline_vars>>

\* asyncio.gather has every worker of the start's generation finished: the
\* rest of start_batch_processing runs, and the submit that called it returns
StartReturn(s) ==
  /\ s \in starters
  /\ \A w \in GenWorkers(s.gen) : workers[w].pc = "done"
  /\ is_processing' = FALSE
  /\ starters' = starters \ {s}
  /\ returned' = IF s.job # NoJobId THEN returned \cup {s.job} ELSE returned
  /\ UNCHANGED <<jobs, job_queue, active_jobs, completed_jobs, job_history,
                 worker_tasks, workers, stats, now, dequeued, pruned, stops,
                 progress_callbacks, callback_calls, timeline_vars>>

\* task.cancel() for every task in self.worker_tasks
CancelTasks(ws) ==
  [w \in DOMAIN ws |->
     IF w \in worker_tasks /\ ws[w].pc # "done" THEN [ws[w] EXCEPT !.cancel = TRUE]
                                                 ELSE ws[w]]

\* the loop over self.active_jobs in stop_batch_processing
ForceCancel(js) ==
  [j \in DOMAIN js |->
     IF j \in Range(active_jobs) THEN [js[j] EXCEPT !.status = CANCELLED] ELSE js[j]]

StopBatchProcessing ==
  /\ stops < MaxStops
  /\ stops' = stops + 1
  /\ workers' = CancelTasks(workers)
  /\ jobs' = ForceCancel(jobs)
  /\ stats' = [stats EXCEPT !.cancelled_jobs = @ + Len(active_jobs)]
  /\ is_processing' = FALSE
  /\ UNCHANGED <<job_queue, active_jobs, completed_jobs, job_history, worker_tasks,
                 starters, now, returned, dequeued, pruned,
                 progress_callbacks, callback_calls, timeline_vars>>

(* ------------------------------ _worker -------------------------------- *)
\* while self.is_processing: where the loop goes next
LoopCheck(running) == IF running THEN "get" ELSE "done"

\* a created task runs for the first time (a task cancelled before its first
\* run never enters the coroutine)
WorkerStart(w) ==
  /\ workers[w].pc = "new"
  /\ workers' = [workers EXCEPT ![w].pc =
                   IF workers[w].cancel THEN "done" ELSE LoopCheck(is_processing)]
  /\ UNCHANGED <<jobs, job_queue, active_jobs, completed_jobs, job_history,
                 is_processing, worker_tasks, starters, stats, now, returned,
                 dequeued, pruned, stops,
                 progress_callbacks, callback_calls, timeline_vars>>

\* asyncio.TimeoutError from wait_for: continue
WorkerTimeout(w) ==
  /\ workers[w].pc = "get"
  /\ ~workers[w].cancel
  /\ job_queue = {}
  /\ workers' = [workers EXCEPT ![w].pc = LoopCheck(is_processing)]
  /\ UNCHANGED <<jobs, job_queue, active_jobs, completed_jobs, job_history,
                 is_processing, worker_tasks, starters, stats, now, returned,
                 dequeued, pruned, stops,
                 progress_callbacks, callback_calls, timeline_vars>>

\* tuple order on (priority.value, datetime)
ItemLess(a, b) ==
  \/ a.priority < b.priority
  \/ a.priority = b.priority /\ a.time < b.time

\* mutant of QueueGet: among the least priority, the item enqueued last
QueueGetNewest(q) ==
  CHOOSE e \in q : \A f \in q \ {e} :
    \/ e.priority < f.priority
    \/ e.priority = f.priority /\ e.time > f.time

\* PriorityQueue.get(): the least item
QueueGet(q) == CHOOSE e \in q : \A f \in q \ {e} : ItemLess(e, f)

\* mutant of QueueAfterGet: the delivered item stays in the queue
QueueAfterGetKeep(q, e) == q

\* the queue after get() delivered item e
QueueAfterGet(q, e) == q \ {e}

\* _process_job from its first line to the await of the renderer
JobProcessing(job, t) == [job EXCEPT !.status = PROCESSING, !.started_at = t]

StatsProcessing(st) ==
  [st EXCEPT !.queued_jobs = @ - 1, !.processing_jobs = @ + 1]

WorkerDequeue(w) ==
  /\ workers[w].pc = "get"
  /\ ~workers[w].cancel
  /\ job_queue # {}
  /\ \E t \in Clock :
       LET item == QueueGet(job_queue)
           j == item.job IN
       /\ now' = t
       /\ job_queue' = QueueAfterGet(job_queue, item)
       /\ dequeued' = [dequeued EXCEPT ![j] = @ + 1]
       /\ jobs' = [jobs EXCEPT ![j] = JobProcessing(jobs[j], t)]
       /\ active_jobs' = DictSet(active_jobs, j)
       /\ stats' = StatsProcessing(stats)
       /\ workers' = [workers EXCEPT ![w].pc = "render", ![w].job = j]
  /\ UNCHANGED <<completed_jobs, job_history, is_processing, worker_tasks, starters,
                 returned, pruned, stops,
                 progress_callbacks, callback_calls, timeline_vars>>

\* mutant of JobCompleted: the duration is measured from the job's creation
JobCompletedFromCreation(job, t) ==
  [job EXCEPT !.status = COMPLETED, !.completed_at = t, !.progress = 100,
              !.result = "result", !.actual_duration = t - job.created_at]

\* the statements after the renderer's await returned
JobCompleted(job, t) ==
  [job EXCEPT !.status = COMPLETED, !.completed_at = t, !.progress = 100,
              !.result = "result", !.actual_duration = t - job.started_at]

StatsCompleted(st, actual_duration) ==
  LET c == st.completed_jobs + 1
      total == st.total_processing_time + actual_duration IN
  [st EXCEPT !.processing_jobs = @ - 1, !.completed_jobs = c,
             !.total_processing_time = total,
             !.average_processing_time = <<total, Max(1, c)>>]

\* mutant of JobFailed: the exception's message is not recorded
JobFailedNoError(job, t) ==
  [job EXCEPT !.status = FAILED, !.completed_at = t]

\* the except Exception branch
JobFailed(job, t) ==
  [job EXCEPT !.status = FAILED, !.completed_at = t, !.error = "error"]

StatsFailed(st) ==
  [st EXCEPT !.processing_jobs = @ - 1, !.failed_jobs = @ + 1]

\* mutant of StatsFinally: the rate is taken over all the jobs submitted
StatsFinallyOverTotal(st) ==
  LET total_finished == st.completed_jobs + st.failed_jobs IN
  IF total_finished > 0
    THEN [st EXCEPT !.success_rate = <<st.completed_jobs * 100, st.total_jobs>>]
    ELSE st

\* the finally block: the success rate
StatsFinally(st) ==
  LET total_finished == st.completed_jobs + st.failed_jobs IN
  IF total_finished > 0
    THEN [st EXCEPT !.success_rate = <<st.completed_jobs * 100, total_finished>>]
    ELSE st

\* the finally block: the registries
Finally(j) ==
  /\ completed_jobs' = DictSet(completed_jobs, j)
  /\ job_history' = Append(job_history, j)
  /\ active_jobs' = DictDel(active_jobs, j)

\* the Render Engine call returns
RenderReturn(w) ==
  /\ workers[w].pc = "render"
  /\ ~workers[w].cancel
  /\ \E t \in Clock :
       LET j == workers[w].job
           job == JobCompleted(jobs[j], t) IN
       /\ now' = t
       /\ jobs' = [jobs EXCEPT ![j] = job]
       /\ stats' = StatsFinally(StatsCompleted(stats, job.actual_duration))
       /\ Finally(j)
  /\ workers' = [workers EXCEPT ![w].pc = LoopCheck(is_processing), ![w].job = NoJobId]
  /\ UNCHANGED <<job_queue, is_processing, worker_tasks, starters, returned,
                 dequeued, pruned, stops,
                 progress_callbacks, callback_calls, timeline_vars>>

\* mutant of AfterFailure: the failure ends the worker's loop
AfterFailureExit(running) == "done"

\* where the worker goes once _process_job has caught the renderer's
\* exception and returned: task_done(), then the loop test
AfterFailure(running) == LoopCheck(running)

\* the Render Engine call raises
RenderRaise(w) ==
  /\ workers[w].pc = "render"
  /\ ~workers[w].cancel
  /\ \E t \in Clock :
       LET j == workers[w].job IN
       /\ now' = t
       /\ jobs' = [jobs EXCEPT ![j] = JobFailed(jobs[j], t)]
       /\ stats' = StatsFinally(StatsFailed(stats))
       /\ Finally(j)
  /\ workers' = [workers EXCEPT ![w].pc = AfterFailure(is_processing), ![w].job = NoJobId]
  /\ UNCHANGED <<job_queue, is_processing, worker_tasks, starters, returned,
                 dequeued, pruned, stops,
                 progress_callbacks, callback_calls, timeline_vars>>

\* asyncio.CancelledError is thrown into the worker at its await: in the
\* queue wait it leaves the loop; in the renderer's await only the finally
\* block of _process_job runs (CancelledError is not an Exception)
WorkerCancelled(w) ==
  /\ workers[w].pc \in {"get", "render"}
  /\ workers[w].cancel
  /\ IF workers[w].pc = "render"
       THEN /\ Finally(workers[w].job)
            /\ stats' = StatsFinally(stats)
       ELSE UNCHANGED <<completed_jobs, job_history, active_jobs, stats>>
  /\ workers' = [workers EXCEPT ![w].pc = "done", ![w].job = NoJobId]
  /\ UNCHANGED <<jobs, job_queue, is_processing, worker_tasks, starters, now,
                 returned, dequeued, pruned, stops,
                 progress_callbacks, callback_calls, timeline_vars>>

(* ------------------------ registry operations -------------------------- *)
\* the dict get_job_status builds from a job
Snapshot(job_id) ==
  LET job == jobs[job_id] IN
  [id |-> job_id, project_id |-> job.project_id, status |-> job.status,
   progress |-> job.progress, created_at |-> job.created_at,
   started_at |-> job.started_at, completed_at |-> job.completed_at,
   actual_duration |-> job.actual_duration, error |-> job.error,
   result |-> job.result]

\* get_job_status returning None
NotFound == [found |-> FALSE]

get_job_status(job_id) ==
  IF job_id \in Range(active_jobs) THEN Snapshot(job_id)
  ELSE IF job_id \in Range(completed_jobs) THEN Snapshot(job_id)
  ELSE NotFound

\* mutant of cancel_job_result: every id is reported as cancelled
cancel_job_result_always(job_id) == TRUE

\* what cancel_job returns
cancel_job_result(job_id) == job_id \in Range(active_jobs)

JobCancelled(job, t) == [job EXCEPT !.status = CANCELLED, !.completed_at = t]

StatsCancelled(st) ==
  [st EXCEPT !.processing_jobs = @ - 1, !.cancelled_jobs = @ + 1]

CancelJob(job_id) ==
  IF job_id \in Range(active_jobs)
    THEN /\ \E t \in Clock :
              /\ now' = t
              /\ jobs' = [jobs EXCEPT ![job_id] = JobCancelled(jobs[job_id], t)]
         /\ completed_jobs' = DictSet(completed_jobs, job_id)
         /\ active_jobs' = DictDel(active_jobs, job_id)
         /\ stats' = StatsCancelled(stats)
         /\ UNCHANGED <<job_queue, job_history, is_processing, worker_tasks, workers,
                        starters, returned, dequeued, pruned, stops,
                        progress_callbacks, callback_calls, timeline_vars>>
    ELSE UNCHANGED vars

\* mutant of Retryable: the status of the original is not looked at
RetryableAnyStatus(job_id) == job_id \in Range(completed_jobs)

\* whether retry_failed_job goes on to submit
Retryable(job_id) ==
  /\ job_id \in Range(completed_jobs)
  /\ jobs[job_id].status = FAILED

\* mutant of RetryRequest: the original's project id is not passed on
RetryRequestNoProject(original_job) ==
  [script_content |-> original_job.script_content,
   voice_audio_base64 |-> original_job.voice_audio_base64,
   template_id |-> original_job.template_id,
   quality |-> original_job.quality,
   background_config |-> original_job.background_config,
   project_id |-> <<"none", 0>>]

\* the parameters retry_failed_job passes to submit_batch_job
RetryRequest(original_job) ==
  [script_content |-> original_job.script_content,
   voice_audio_base64 |-> original_job.voice_audio_base64,
   template_id |-> original_job.template_id,
   quality |-> original_job.quality,
   background_config |-> original_job.background_config,
   project_id |-> original_job.project_id]

\* what retry_failed_job returns (once its submit_batch_job returns)
retry_failed_job_result(job_id) ==
  IF Retryable(job_id) THEN Len(jobs) + 1 ELSE NoJobId

RetryFailedJob(job_id) ==
  IF Retryable(job_id)
    THEN submit_batch_job(RetryRequest(jobs[job_id]), jobs[job_id].priority)
    ELSE UNCHANGED vars

\* job.completed_at or job.created_at
JobTime(j) ==
  IF jobs[j].completed_at # NoTime THEN jobs[j].completed_at ELSE jobs[j].created_at

\* mutant of CleanupOldJobs: old entries of active_jobs are pruned as well
CleanupOldJobsActive(max_age_hours) ==
  /\ \E t \in Clock :
       LET cutoff_time == t - max_age_hours IN
       /\ now' = t
       /\ job_history' = SelectSeq(job_history, LAMBDA j : JobTime(j) > cutoff_time)
       /\ completed_jobs' =
            SelectSeq(completed_jobs, LAMBDA j : ~(JobTime(j) < cutoff_time))
       /\ active_jobs' =
            SelectSeq(active_jobs, LAMBDA j : ~(JobTime(j) < cutoff_time))
       /\ pruned' = pruned \cup { j \in Range(completed_jobs) : JobTime(j) < cutoff_time }
  /\ UNCHANGED <<jobs, job_queue, is_processing, worker_tasks, workers,
                 starters, stats, returned, dequeued, stops,
                 progress_callbacks, callback_calls, timeline_vars>>

\* cleanup_old_jobs; one unit of the clock is one hour
CleanupOldJobs(max_age_hours) ==
  /\ \E t \in Clock :
       LET cutoff_time == t - max_age_hours IN
       /\ now' = t
       /\ job_history' = SelectSeq(job_history, LAMBDA j : JobTime(j) > cutoff_time)
       /\ completed_jobs' =
            SelectSeq(completed_jobs, LAMBDA j : ~(JobTime(j) < cutoff_time))
       /\ pruned' = pruned \cup { j \in Range(completed_jobs) : JobTime(j) < cutoff_time }
  /\ UNCHANGED <<jobs, job_queue, active_jobs, is_processing, worker_tasks, workers,
                 starters, stats, returned, dequeued, stops,
                 progress_callbacks, callback_calls, timeline_vars>>

(* ------------------------------ Timeline ------------------------------- *)
\* get_track returning None
NoTrack == 0

\* mutant of get_track: an id that matches no track resolves to the first track
get_track_or_first(track_id) ==
  IF \E k \in 1..Len(tracks) : tracks[k].id = track_id
    THEN CHOOSE k \in 1..Len(tracks) : tracks[k].id = track_id
    ELSE 1

\* get_track: the position in self.tracks of the first track with the id
get_track(track_id) ==
  IF \E k \in 1..Len(tracks) : tracks[k].id = track_id
    THEN CHOOSE k \in 1..Len(tracks) :
           /\ tracks[k].id = track_id
           /\ \A m \in 1..(k - 1) : tracks[m].id # track_id
    ELSE NoTrack

\* asset.start_time + asset.duration
AssetEnd(asset) == asset.start_time + asset.duration

\* mutant of Overlap: only an asset that starts no later than the new one
\* counts as overlapped
OverlapFromStart(new_asset, existing_asset) ==
  /\ new_asset.start_time >= existing_asset.start_time
  /\ new_asset.start_time < AssetEnd(existing_asset)
  /\ AssetEnd(new_asset) > existing_asset.start_time

\* the test "Check for overlap" of _resolve_overlaps
Overlap(new_asset, existing_asset) ==
  /\ new_asset.start_time < AssetEnd(existing_asset)
  /\ AssetEnd(new_asset) > existing_asset.start_time

\* mutant of CompleteOverlap: every asset that starts no earlier than the
\* new one is removed
CompleteOverlapLoose(new_asset, existing_asset) ==
  new_asset.start_time <= existing_asset.start_time

\* the test "Complete overlap": the existing asset is removed
CompleteOverlap(new_asset, existing_asset) ==
  /\ Overlap(new_asset, existing_asset)
  /\ new_asset.start_time <= existing_asset.start_time
  /\ AssetEnd(new_asset) >= AssetEnd(existing_asset)

\* mutant of TrimExisting: an asset whose head is overlapped is shortened
\* but not moved
TrimExistingKeepStart(new_asset, existing_asset) ==
  LET new_start == new_asset.start_time
      new_end == AssetEnd(new_asset)
      existing_start == existing_asset.start_time
      existing_end == AssetEnd(existing_asset) IN
  IF ~Overlap(new_asset, existing_asset) THEN existing_asset
  ELSE IF new_start > existing_start /\ new_start < existing_end
    THEN [existing_asset EXCEPT !.duration = new_start - existing_start]
  ELSE IF new_end > existing_start /\ new_end < existing_end
    THEN [existing_asset EXCEPT !.duration = existing_end - new_end]
  ELSE existing_asset

\* the two elif branches "Partial overlap" of _resolve_overlaps: what
\* becomes of an existing asset that is not removed
TrimExisting(new_asset, existing_asset) ==
  LET new_start == new_asset.start_time
      new_end == AssetEnd(new_asset)
      existing_start == existing_asset.start_time
      existing_end == AssetEnd(existing_asset) IN
  IF ~Overlap(new_asset, existing_asset) THEN existing_asset
  ELSE IF new_start > existing_start /\ new_start < existing_end
    THEN [existing_asset EXCEPT !.duration = new_start - existing_start]
  ELSE IF new_end > existing_start /\ new_end < existing_end
    THEN [existing_asset EXCEPT !.duration = existing_end - new_end,
                                !.start_time = new_end]
  ELSE existing_asset

\* mutant of resolve_overlaps: no asset is removed
resolve_overlaps_keep(assets, new_asset) ==
  [i \in 1..Len(assets) |-> TrimExisting(new_asset, assets[i])]

\* _resolve_overlaps: the track's asset list after the loop over its copy
resolve_overlaps(assets, new_asset) ==
  LET kept == SelectSeq(assets, LAMBDA e : ~CompleteOverlap(new_asset, e)) IN
  [i \in 1..Len(kept) |-> TrimExisting(new_asset, kept[i])]

\* what add_asset returns
add_asset_result(track_id) == get_track(track_id) # NoTrack

\* mutant of TracksAfterAdd: the asset is appended without resolving overlaps
TracksAfterAddNoResolve(trks, k, asset) ==
  [trks EXCEPT ![k].assets = Append(@, asset)]

\* self.tracks after add_asset
TracksAfterAdd(trks, k, asset) ==
  [trks EXCEPT ![k].assets = Append(resolve_overlaps(@, asset), asset)]

\* mutant of DurationAfterAdd: the duration follows the asset added last
DurationAfterAddLast(d, asset) == AssetEnd(asset)

\* self.duration after add_asset
DurationAfterAdd(d, asset) == IF AssetEnd(asset) > d THEN AssetEnd(asset) ELSE d

\* content=None: no text
NoContent == <<>>

\* a key missing from asset.transitions; a transition name is the pair of
\* the strings it is concatenated from
NoTransition == <<>>

\* number of assets create_from_script_and_voice has constructed
PopulateAssets == IF script = <<>> THEN 0 ELSE 1 + 2 * Len(segments)

\* TimelineAsset(...); its id stands for a uuid
TimelineAsset(id, type, name, asset_duration, start_time, track_id, source_url, content) ==
  [id |-> id, type |-> type, name |-> name, duration |-> asset_duration,
   start_time |-> start_time, track_id |-> track_id, source_url |-> source_url,
   content |-> content, effects |-> <<>>,
   transitions |-> [in |-> NoTransition, out |-> NoTransition]]

\* add_asset(track_id, asset) for an asset the client has just constructed
AddAsset(track_id, asset) ==
  /\ uuids - PopulateAssets < MaxAssets
  /\ asset.id = uuids + 1
  /\ uuids' = uuids + 1
  /\ LET k == get_track(track_id) IN
     IF k = NoTrack
       THEN UNCHANGED <<tracks, duration>>
       ELSE /\ tracks' = TracksAfterAdd(tracks, k, asset)
            /\ duration' = DurationAfterAdd(duration, asset)
  /\ UNCHANGED <<metadata, script, segments, batch_vars>>

\* add_track(track_type, name)
AddTrack(track_type, name) ==
  /\ Len(tracks) < MaxTracks
  /\ tracks' = Append(tracks, Track(Len(tracks) + 1, track_type, name, Len(tracks)))
  /\ UNCHANGED <<duration, metadata, uuids, script, segments, batch_vars>>

(* ------------------------------ segmenter ------------------------------ *)
\* A line of a script, after line.strip(), is [head, words]: head is the
\* prefix the startswith tests look at (a marker prefix, "[" for any other
\* line that starts with a bracket, "" for a line that does not) and words
\* is the number of words on the line; a blank line has no words.
Line(head, words) == [head |-> head, words |-> words]

BlankLine == Line("", 0)

\* the marker prefixes in the order _parse_script_segments tests them, and
\* the segment type each opens
MarkerTypes ==
  <<<<"[HOOK", "hook">>, <<"[INTRODUCTION", "introduction">>,
    <<"[MAIN CONTENT", "main">>, <<"[CONCLUSION", "conclusion">>,
    <<"[CALL TO ACTION", "cta">>>>

Markers == { MarkerTypes[i][1] : i \in 1..Len(MarkerTypes) }

MarkerType(head) ==
  LET i == CHOOSE k \in 1..Len(MarkerTypes) : MarkerTypes[k][1] = head IN
  MarkerTypes[i][2]

\* {'type': ..., 'text': '', 'duration': 0}; text is the list of the lines
\* appended to it (each followed by a newline)
NewSegment(type) == [type |-> type, text |-> <<>>, duration |-> 0]

\* segments.append(current_segment) if current_segment['text']
CloseSegment(st) ==
  IF st.current_segment.text # <<>>
    THEN Append(st.segments, st.current_segment)
    ELSE st.segments

\* one turn of the loop over the lines
ParseLine(st, line) ==
  IF line = BlankLine THEN st
  ELSE IF line.head \in Markers
    THEN [segments |-> CloseSegment(st), current_segment |-> NewSegment(MarkerType(line.head))]
  ELSE IF line.head # "["
    THEN [st EXCEPT !.current_segment.text = Append(@, line)]
  ELSE st

\* the loop over the lines
RECURSIVE ParseLines(_, _)
ParseLines(st, lines) ==
  IF lines = <<>> THEN st ELSE ParseLines(ParseLine(st, Head(lines)), Tail(lines))

\* len(text.split()) of the lines in text
RECURSIVE WordCount(_)
WordCount(text) ==
  IF text = <<>> THEN 0 ELSE Head(text).words + WordCount(Tail(text))

\* mutant of SegmentDuration: the reading time without the floor of 3.0
SegmentDurationNoFloor(segment) ==
  (WordCount(segment.text) * 60 * TicksPerSecond) \div 150

\* max(3.0, (word_count / 150.0) * 60.0), in ticks
SegmentDuration(segment) ==
  Max(3 * TicksPerSecond, (WordCount(segment.text) * 60 * TicksPerSecond) \div 150)

\* _parse_script_segments
parse_script_segments(script_content) ==
  LET st == ParseLines([segments |-> <<>>, current_segment |-> NewSegment("main")],
                       script_content)
      closed == CloseSegment(st) IN
  [i \in 1..Len(closed) |-> [closed[i] EXCEPT !.duration = SegmentDuration(closed[i])]]

\* the segmenter applied to a script, once in a run
ParseScriptSegments(script_content) ==
  /\ script = <<>>
  /\ script' = script_content
  /\ segments' = parse_script_segments(script_content)
  /\ UNCHANGED <<tracks, duration, metadata, uuids, batch_vars>>

(* ----------------------- automated population -------------------------- *)
\* max(30.0, (word_count / 150.0) * 60.0), in ticks
estimate_voice_duration(script_content) ==
  Max(30 * TicksPerSecond, (WordCount(script_content) * 60 * TicksPerSecond) \div 150)

\* _determine_background_type
determine_background_type(segment) ==
  CASE segment.type = "hook" -> [type |-> "video", source |-> "dynamic_background_1.mp4"]
    [] segment.type = "introduction" -> [type |-> "video", source |-> "intro_background.mp4"]
    [] segment.type = "main" -> [type |-> "image", source |-> "content_background.jpg"]
    [] segment.type = "conclusion" -> [type |-> "video", source |-> "outro_background.mp4"]
    [] segment.type = "cta" -> [type |-> "video", source |-> "cta_background.mp4"]
    [] OTHER -> [type |-> "image", source |-> "default_background.jpg"]

\* get_tracks_by_type(track_type)[0]: the position of the first such track
FirstTrackOfType(track_type) ==
  CHOOSE k \in 1..Len(tracks) :
    /\ tracks[k].type = track_type
    /\ \A m \in 1..(k - 1) : tracks[m].type # track_type

\* the effects and transitions the loop gives a background asset
BackgroundAsset(asset, segment) ==
  IF segment.type = "hook"
    THEN [asset EXCEPT !.effects = Append(@, [type |-> "zoom_in", intensity |-> "1.2"])]
  ELSE IF segment.type = "transition"
    THEN [asset EXCEPT !.transitions = [in |-> <<"fade", "_in">>, out |-> <<"fade", "_out">>]]
  ELSE asset

\* mutant of PlaceSegment: current_time is not advanced
PlaceSegmentNoAdvance(tl, segment) ==
  LET video_track == FirstTrackOfType("video")
      subtitle_track == FirstTrackOfType("subtitle")
      subtitle_asset ==
        TimelineAsset(tl.uuids + 1, "text",
                      <<"Subtitle", Len(tl.tracks[subtitle_track].assets) + 1>>,
                      segment.duration, tl.current_time, tracks[subtitle_track].id,
                      None, segment.text)
      with_subtitle == TracksAfterAdd(tl.tracks, subtitle_track, subtitle_asset)
      background_type == determine_background_type(segment)
      background_asset ==
        BackgroundAsset(
          TimelineAsset(tl.uuids + 2, background_type.type,
                        <<"Background", Len(with_subtitle[video_track].assets) + 1>>,
                        segment.duration, tl.current_time, tracks[video_track].id,
                        background_type.source, NoContent),
          segment) IN
  [tracks |-> TracksAfterAdd(with_subtitle, video_track, background_asset),
   duration |-> DurationAfterAdd(DurationAfterAdd(tl.duration, subtitle_asset),
                                 background_asset),
   uuids |-> tl.uuids + 2,
   current_time |-> tl.current_time]

\* one turn of the loop over the segments: tl is [tracks, duration, uuids,
\* current_time]
PlaceSegment(tl, segment) ==
  LET video_track == FirstTrackOfType("video")
      subtitle_track == FirstTrackOfType("subtitle")
      subtitle_asset ==
        TimelineAsset(tl.uuids + 1, "text",
                      <<"Subtitle", Len(tl.tracks[subtitle_track].assets) + 1>>,
                      segment.duration, tl.current_time, tracks[subtitle_track].id,
                      None, segment.text)
      with_subtitle == TracksAfterAdd(tl.tracks, subtitle_track, subtitle_asset)
      background_type == determine_background_type(segment)
      background_asset ==
        BackgroundAsset(
          TimelineAsset(tl.uuids + 2, background_type.type,
                        <<"Background", Len(with_subtitle[video_track].assets) + 1>>,
                        segment.duration, tl.current_time, tracks[video_track].id,
                        background_type.source, NoContent),
          segment) IN
  [tracks |-> TracksAfterAdd(with_subtitle, video_track, background_asset),
   duration |-> DurationAfterAdd(DurationAfterAdd(tl.duration, subtitle_asset),
                                 background_asset),
   uuids |-> tl.uuids + 2,
   current_time |-> tl.current_time + segment.duration]

\* the loop over the segments
RECURSIVE PlaceSegments(_, _)
PlaceSegments(tl, segs) ==
  IF segs = <<>> THEN tl ELSE PlaceSegments(PlaceSegment(tl, Head(segs)), Tail(segs))

\* the timeline after create_from_script_and_voice
Populated(script_content, voice_url) ==
  LET audio_track == FirstTrackOfType("audio")
      voice_asset ==
        TimelineAsset(uuids + 1, "audio", <<"Generated Voice", 0>>,
                      estimate_voice_duration(script_content), 0,
                      tracks[audio_track].id, voice_url, NoContent) IN
  PlaceSegments([tracks |-> TracksAfterAdd(tracks, audio_track, voice_asset),
                 duration |-> DurationAfterAdd(duration, voice_asset),
                 uuids |-> uuids + 1,
                 current_time |-> 0],
                parse_script_segments(script_content))

\* create_from_script_and_voice; a timeline is populated once
CreateFromScriptAndVoice(script_content, voice_url) ==
  /\ script = <<>>
  /\ script_content # <<>>
  /\ LET tl == Populated(script_content, voice_url) IN
     /\ tracks' = tl.tracks
     /\ duration' = tl.duration
     /\ uuids' = tl.uuids
  /\ script' = script_content
  /\ segments' = parse_script_segments(script_content)
  /\ UNCHANGED <<metadata, batch_vars>>

\* sum(len(t.assets) for t in self.tracks)
RECURSIVE CountAssets(_)
CountAssets(trks) ==
  IF trks = <<>> THEN 0 ELSE Len(Head(trks).assets) + CountAssets(Tail(trks))

\* the dict create_from_script_and_voice returns, read in the state it leaves
create_from_script_and_voice_result ==
  [total_duration |-> duration,
   tracks_created |-> Len(tracks),
   assets_created |-> CountAssets(tracks),
   segments_processed |-> Len(segments)]

(* --------------------------- template style ---------------------------- *)
\* the templates dict of apply_template_style
templates ==
  [minimal |-> [transitions |-> "fade", effects |-> <<>>],
   scientific |-> [transitions |-> "slide", effects |-> <<[type |-> "diagram_highlight"]>>],
   storytelling |-> [transitions |-> "cinematic_wipe",
                     effects |-> <<[type |-> "cinematic_blur"]>>]]

\* what apply_template_style returns
apply_template_style_result(template_id) == template_id \in DOMAIN templates

\* mutant of StyledAsset: the template's effects replace the asset's effects
StyledAssetReplace(asset, template) ==
  IF asset.type \in {"video", "image"}
    THEN [asset EXCEPT !.transitions = [in |-> <<template.transitions, "_in">>,
                                        out |-> <<template.transitions, "_out">>],
                       !.effects = template.effects]
    ELSE asset

\* the update of one asset
StyledAsset(asset, template) ==
  IF asset.type \in {"video", "image"}
    THEN [asset EXCEPT !.transitions = [in |-> <<template.transitions, "_in">>,
                                        out |-> <<template.transitions, "_out">>],
                       !.effects = @ \o template.effects]
    ELSE asset

ApplyTemplateStyle(template_id) ==
  /\ \A k \in 1..Len(tracks) : \A i \in 1..Len(tracks[k].assets) :
       Len(tracks[k].assets[i].effects) < MaxEffects
  /\ IF apply_template_style_result(template_id)
       THEN /\ tracks' = [k \in 1..Len(tracks) |->
                           [tracks[k] EXCEPT !.assets =
                              [i \in 1..Len(tracks[k].assets) |->
                                 StyledAsset(tracks[k].assets[i], templates[template_id])]]]
            /\ metadata' = template_id
       ELSE UNCHANGED <<tracks, metadata>>
  /\ UNCHANGED <<duration, uuids, script, segments, batch_vars>>

\* seq[:n] for n >= 0
Take(seq, n) == SubSeq(seq, 1, IF n < Len(seq) THEN n ELSE Len(seq))

\* one step of the stable descending sort: j, which came after the jobs of
\* sorted_jobs in the list, goes behind every job whose key is not smaller
InsertDescending(sorted_jobs, j) ==
  LET k == Cardinality({ i \in 1..Len(sorted_jobs) : JobTime(sorted_jobs[i]) >= JobTime(j) }) IN
  SubSeq(sorted_jobs, 1, k) \o <<j>> \o SubSeq(sorted_jobs, k + 1, Len(sorted_jobs))

\* sorted(history, key=lambda j: j.completed_at or j.created_at, reverse=True)
RECURSIVE SortedDescending(_)
SortedDescending(history) ==
  IF history = <<>>
    THEN <<>>
    ELSE InsertDescending(SortedDescending(SubSeq(history, 1, Len(history) - 1)),
                          history[Len(history)])

\* get_all_jobs: the list of dicts it returns
get_all_jobs(limit) ==
  LET recent_completed == Take(SortedDescending(job_history), limit)
      listed == SelectSeq(recent_completed, LAMBDA j : j \notin Range(active_jobs))
      all_jobs == [i \in 1..Len(active_jobs) |-> get_job_status(active_jobs[i])]
                    \o [i \in 1..Len(listed) |-> get_job_status(listed[i])] IN
  Take(all_jobs, limit)

\* the limits the clients pass to get_all_jobs
Limits == 0..MaxJobs

\* the closure progress_callback that _process_job defines: what a call of it
\* would add to the calls made to the callbacks registered for the job
progress_callback(job_id, progress, stage) ==
  IF job_id \in progress_callbacks
    THEN callback_calls \cup {[job |-> job_id, progress |-> progress, stage |-> stage]}
    ELSE callback_calls

\* add_progress_callback
AddProgressCallback(job_id) ==
  /\ job_id \notin progress_callbacks
  /\ progress_callbacks' = progress_callbacks \cup {job_id}
  /\ UNCHANGED <<jobs, job_queue, active_jobs, completed_jobs, job_history,
                 is_processing, worker_tasks, workers, starters, stats, now,
                 returned, dequeued, pruned, stops, callback_calls, timeline_vars>>

(* ------------------------------- inputs -------------------------------- *)
\* a track id that matches no track
UnknownTrack == MaxTracks + 1

\* the track ids the clients pass to add_asset
TrackIds == { tracks[k].id : k \in 1..Len(tracks) } \cup {UnknownTrack}

\* the durations of the assets the clients add: short, longer, and long
\* enough to reach past the default duration of the timeline
Durations == {1, 3, DefaultDuration}

\* the assets a client constructs for a track
ClientAssets(track_id) ==
  { TimelineAsset(uuids + 1, "image", <<"Asset", uuids + 1>>, asset_duration, start_time,
                  track_id, "asset.jpg", NoContent) :
      start_time \in 0..MaxStart, asset_duration \in Durations }

\* the lines scripts are made of
Lines ==
  { Line("[HOOK", 1), Line("[INTRODUCTION", 1), Line("[MAIN CONTENT", 2),
    Line("[CONCLUSION", 1), Line("[CALL TO ACTION", 3),
    Line("[", 2), Line("", 1), Line("", 10), Line("", 200), BlankLine }

\* script_content.strip().split('\n') of the scripts given to the segmenter
Scripts == UNION { [1..n -> Lines] : n \in 0..MaxLines }

\* the scripts timelines are populated from
PopulateScripts ==
  { <<Line("[HOOK", 1), Line("", 1)>>,
    <<Line("", 10), Line("[MAIN CONTENT", 2), Line("", 200)>> }

\* scripts of more segments than a script of MaxLines lines can hold
SegmentedScripts ==
  { <<Line("", 10), Line("[HOOK", 1), Line("", 1), Line("[MAIN CONTENT", 2), Line("", 200)>>,
    <<Line("[HOOK", 1), Line("", 10), Line("[INTRODUCTION", 1), Line("", 200),
      Line("[MAIN CONTENT", 2), Line("", 200), BlankLine, Line("", 10),
      Line("[CONCLUSION", 1), Line("", 1), Line("[CALL TO ACTION", 3), Line("", 10)>> }

\* the template ids the clients pass
TemplateIds == {"minimal", "scientific", "unknown"}

(* --------------------------- specification ----------------------------- *)
\* an id the clients may pass that submit_batch_job never issued
NeverIssued == MaxJobs + 1

Workers == DOMAIN workers

Next ==
  \/ SubmitBatchJob
  \/ StartBatchProcessing
  \/ \E s \in starters : StartReturn(s)
  \/ StopBatchProcessing
  \/ \E w \in Workers : WorkerStart(w)
  \/ \E w \in Workers : WorkerTimeout(w)
  \/ \E w \in Workers : WorkerDequeue(w)
  \/ \E w \in Workers : RenderReturn(w)
  \/ \E w \in Workers : RenderRaise(w)
  \/ \E w \in Workers : WorkerCancelled(w)
  \/ \E job_id \in JobIds \cup {NeverIssued} : CancelJob(job_id)
  \/ \E job_id \in JobIds \cup {NeverIssued} : RetryFailedJob(job_id)
  \/ \E max_age_hours \in {0, 1} : CleanupOldJobs(max_age_hours)

Spec == Init /\ [][Next]_vars

\* one run of worker task w: the event loop resumes every task that is ready,
\* and the Render Engine call of a job returns or raises
WorkerStep(w) ==
  /\ w \in Workers
  /\ \/ WorkerStart(w)
     \/ WorkerTimeout(w)
     \/ WorkerDequeue(w)
     \/ RenderReturn(w)
     \/ RenderRaise(w)
     \/ WorkerCancelled(w)

\* the worker tasks there can ever be
AllWorkers == 1..(MaxGen * max_concurrent_jobs)

FairSpec == Spec /\ \A w \in AllWorkers : WF_vars(WorkerStep(w))

\* the scheduler with clients that register a progress callback for a job
\* while the job is still queued
CallbackNext ==
  \/ Next
  \/ \E job_id \in WithStatus(QUEUED) : AddProgressCallback(job_id)

CallbackSpec == Init /\ [][CallbackNext]_vars

\* the operations of a Timeline
TimelineNext ==
  \/ \E track_id \in TrackIds : \E asset \in ClientAssets(track_id) : AddAsset(track_id, asset)
  \/ AddTrack("video", "Video 2")
  \/ \E script_content \in PopulateScripts :
       CreateFromScriptAndVoice(script_content, "voice.mp3")
  \/ \E template_id \in TemplateIds : ApplyTemplateStyle(template_id)

TimelineSpec == Init /\ [][TimelineNext]_vars

\* the segmenter applied to every script
SegmenterNext == \E script_content \in Scripts : ParseScriptSegments(script_content)

SegmenterSpec == Init /\ [][SegmenterNext]_vars

\* a freshly constructed Timeline populated from a script, once
PopulateNext ==
  /\ script = <<>>
  /\ \E script_content \in Scripts \cup SegmentedScripts :
       CreateFromScriptAndVoice(script_content, "voice.mp3")

PopulateSpec == Init /\ [][PopulateNext]_vars

TypeOK ==
  /\ Len(jobs) <= MaxJobs
  /\ \A j \in JobIds : jobs[j].status \in BatchJobStatus
  /\ is_processing \in BOOLEAN

(* ------------------------------- claims -------------------------------- *)
Processing == { j \in JobIds : jobs[j].status = PROCESSING }

\* C1: once a job's status is completed, failed or cancelled, no step changes
\* it again.
C1_TerminalStatusIsFinal ==
  [][\A j \in JobIds :
       jobs[j].status \in Terminal => jobs'[j].status = jobs[j].status]_vars

\* C2: a step that takes a job from the queue leaves no job of higher
\* priority behind in the queue: of two queued jobs the one with the higher
\* priority is dequeued first.
C2_HigherPriorityFirst ==
  [][\A b \in job_queue \ job_queue' :
       \A a \in job_queue' : a.priority <= b.priority]_vars

C4_SubmitReturns == \A j \in JobIds : j \in returned

\* C5: no job is delivered by the queue more than once, and no two worker
\* tasks hold the same job.
C5_DequeuedAtMostOnce ==
  /\ \A j \in JobIds : dequeued[j] <= 1
  /\ \A w1, w2 \in Workers :
       (workers[w1].job # NoJobId /\ workers[w1].job = workers[w2].job) => w1 = w2

\* C5 witness: after a stop and a restart of the pool a job has been taken
\* from the queue and finished, and a worker is waiting on the empty queue.
C5_Witness ==
  /\ Gen >= 2
  /\ stops >= 1
  /\ job_queue = {}
  /\ \E j \in JobIds : dequeued[j] = 1 /\ jobs[j].status \in {COMPLETED, FAILED}
  /\ \E w \in Workers : workers[w].pc = "get" /\ ~workers[w].cancel

\* C6: at most max_concurrent_jobs jobs have status processing.
C6_AtMostNProcessing == Cardinality(Processing) <= max_concurrent_jobs

\* C7: cancel_job on a job that is still queued returns true.
C7_CancelQueuedReturnsTrue ==
  \A j \in JobIds : jobs[j].status = QUEUED => cancel_job_result(j)

\* C8: get_job_status finds every job that was submitted and not pruned.
C8_StatusFound ==
  \A j \in JobIds : j \notin pruned => get_job_status(j) # NotFound

\* C9: when the Render Engine call of a job that cancel_job has cancelled
\* ends, the job's result stays unset, its progress is not set to 100 and the
\* completed counter and the total processing time are not increased.
C9_CancelledResultDiscarded ==
  [][\A w \in Workers :
       LET j == workers[w].job IN
       (/\ workers[w].pc = "render"
        /\ jobs[j].status = CANCELLED
        /\ j \notin Range(active_jobs)
        /\ workers'[w].pc # "render")
       => /\ jobs'[j].result = None
          /\ jobs'[j].progress # 100
          /\ stats'.completed_jobs = stats.completed_jobs
          /\ stats'.total_processing_time = stats.total_processing_time]_vars

C11_RetryNonFailedNoOp ==
  [][\A job_id \in JobIds :
       (jobs[job_id].status # FAILED /\ RetryFailedJob(job_id))
       => /\ retry_failed_job_result(job_id) = NoJobId
          /\ UNCHANGED vars]_vars

\* C11 witness: a completed and a cancelled job are in the completed
\* registry, where retry_failed_job looks, while another job could still be
\* created.
C11_Witness ==
  /\ Len(jobs) < MaxJobs
  /\ \E j \in Range(completed_jobs) : jobs[j].status \in {COMPLETED, CANCELLED}
  /\ \A j \in JobIds : retry_failed_job_result(j) = NoJobId

\* C12: once stop_batch_processing has been called, stats.cancelled_jobs
\* equals the number of jobs whose status is cancelled.
C12_CancelledCountAfterStop ==
  stops >= 1 => stats.cancelled_jobs = Cardinality(WithStatus(CANCELLED))

\* C14: every counter of the stats equals the number of jobs in its status,
\* and total_jobs the number of jobs submitted.
C14_CountersMatchStatuses ==
  /\ stats.total_jobs = Len(jobs)
  /\ stats.queued_jobs = Cardinality(WithStatus(QUEUED))
  /\ stats.processing_jobs = Cardinality(WithStatus(PROCESSING))
  /\ stats.completed_jobs = Cardinality(WithStatus(COMPLETED))
  /\ stats.failed_jobs = Cardinality(WithStatus(FAILED))
  /\ stats.cancelled_jobs = Cardinality(WithStatus(CANCELLED))

\* C17: cancel_job on a job whose status is completed, failed or cancelled
\* returns false.
C17_CancelTerminalReturnsFalse ==
  \A j \in JobIds : jobs[j].status \in Terminal => ~cancel_job_result(j)

C15_CleanupZeroPrunesAll ==
  [][CleanupOldJobs(0) =>
       /\ completed_jobs' = <<>>
       /\ \A j \in Range(completed_jobs) : j \notin Range(job_history')]_vars

\* C16: a step of cleanup_old_jobs, whatever max_age_hours and wherever it
\* falls in the interleaving, leaves the queue and active_jobs unchanged and
\* leaves every job whose status is queued or processing as it was: its
\* record, its place and what get_job_status returns for it are the same.
C16_CleanupSparesActive ==
  [][(\E max_age_hours \in {0, 1} : CleanupOldJobs(max_age_hours)) =>
       /\ job_queue' = job_queue
       /\ active_jobs' = active_jobs
       /\ \A j \in WithStatus(QUEUED) \cup WithStatus(PROCESSING) :
            /\ jobs'[j] = jobs[j]
            /\ get_job_status(j)' = get_job_status(j)
            /\ j \notin pruned']_vars

\* C16 witness: a cleanup at instant 1 has pruned a job while another job,
\* dequeued at instant 0 and still processing, was in active_jobs
C16_Witness ==
  /\ pruned # {}
  /\ \E j \in WithStatus(PROCESSING) :
       /\ jobs[j].started_at = 0
       /\ j \in Range(active_jobs)
       /\ get_job_status(j) # NotFound

\* C18: for an id that was never issued, get_job_status returns None,
\* cancel_job returns False and retry_failed_job returns None; each of them
\* takes the branch that assigns nothing, so the queue, the registries, the
\* history and the stats are as they were.
C18_UnknownIdNegative ==
  /\ NeverIssued \notin JobIds
  /\ get_job_status(NeverIssued) = NotFound
  /\ ~cancel_job_result(NeverIssued)
  /\ retry_failed_job_result(NeverIssued) = NoJobId
  /\ ~Retryable(NeverIssued)
  /\ NeverIssued \notin Range(active_jobs)

\* C18 witness: both registries and the queue hold jobs, one of them failed,
\* and the three operations answer negatively for the id never issued
C18_Witness ==
  /\ active_jobs # <<>>
  /\ \E j \in Range(completed_jobs) : jobs[j].status = FAILED
  /\ get_job_status(NeverIssued) = NotFound
  /\ ~cancel_job_result(NeverIssued)
  /\ retry_failed_job_result(NeverIssued) = NoJobId

\* C19: a job that a worker has processed to completed or failed, and that
\* had a callback registered before its processing started, has had the
\* callback called for its start (progress 0) and for its terminal state.
C19_CallbackAtStartAndEnd ==
  \A j \in JobIds :
    (j \in progress_callbacks /\ jobs[j].status \in {COMPLETED, FAILED})
      => /\ \E c \in callback_calls : c.job = j /\ c.progress = 0
         /\ \E c \in callback_calls : c.job = j /\ c.stage \in {COMPLETED, FAILED}

\* C20: get_all_jobs(limit) returns at most limit entries; no entry of a job
\* in a terminal status comes before an entry of a queued or processing job;
\* of two terminal entries that carry a completion time the earlier one in
\* the list completed no earlier; and no job id is listed twice.
C20_ActiveFirstThenRecent ==
  \A limit \in Limits :
    LET all_jobs == get_all_jobs(limit) IN
    /\ Len(all_jobs) <= limit
    /\ \A i \in 1..Len(all_jobs) : all_jobs[i] # NotFound
    /\ \A i, k \in 1..Len(all_jobs) :
         i < k =>
           /\ all_jobs[i].id # all_jobs[k].id
           /\ ~(all_jobs[i].status \in Terminal /\ all_jobs[k].status \notin Terminal)
           /\ (/\ all_jobs[i].status \in Terminal
               /\ all_jobs[k].status \in Terminal
               /\ all_jobs[i].completed_at # NoTime
               /\ all_jobs[k].completed_at # NoTime)
                => all_jobs[i].completed_at >= all_jobs[k].completed_at

\* C28: every job whose status is cancelled has completed_at set, whether
\* cancel_job or stop_batch_processing cancelled it.
C28_CancelledHasCompletedAt ==
  \A j \in WithStatus(CANCELLED) : jobs[j].completed_at # NoTime

\* C29: active_jobs holds only queued or processing jobs, completed_jobs
\* holds only completed, failed or cancelled jobs, and no job id is in both.
C29_RegistriesMatchStatus ==
  /\ \A j \in Range(active_jobs) : jobs[j].status \in {QUEUED, PROCESSING}
  /\ \A j \in Range(completed_jobs) : jobs[j].status \in Terminal
  /\ Range(active_jobs) \cap Range(completed_jobs) = {}

\* C30: every job whose status is completed has progress 100, a result,
\* started_at and completed_at set with started_at <= completed_at, and
\* actual_duration = completed_at - started_at.
C30_CompletedRecord ==
  \A j \in WithStatus(COMPLETED) :
    /\ jobs[j].progress = 100
    /\ jobs[j].result # None
    /\ jobs[j].started_at # NoTime
    /\ jobs[j].completed_at # NoTime
    /\ jobs[j].started_at <= jobs[j].completed_at
    /\ jobs[j].actual_duration = jobs[j].completed_at - jobs[j].started_at

\* C30 witness: the only job was cancelled by cancel_job while the renderer
\* was working on it, and the render call then returned one instant after
\* the job had started: the job is completed
C30_Witness ==
  /\ stops = 0
  /\ Len(jobs) = 1
  /\ stats.cancelled_jobs = 1
  /\ jobs[1].status = COMPLETED
  /\ jobs[1].actual_duration = 1

\* the half-open intervals of two assets do not intersect
Disjoint(a, b) == AssetEnd(a) <= b.start_time \/ AssetEnd(b) <= a.start_time

AssetIds(assets) == { assets[i].id : i \in 1..Len(assets) }

\* C22: an add_asset of an asset that overlaps none of the assets already on
\* the track (touching at an endpoint is not overlapping) leaves each of
\* them as it was and appends the new asset unchanged; so N pairwise
\* non-overlapping assets, inserted in any order into an empty track, are
\* exactly the assets of the track, with their start times and durations.
C22_DisjointInsertKeepsAll ==
  [][\A track_id \in TrackIds : \A asset \in ClientAssets(track_id) :
       LET k == get_track(track_id) IN
       (/\ AddAsset(track_id, asset)
        /\ k # NoTrack
        /\ \A i \in 1..Len(tracks[k].assets) : Disjoint(asset, tracks[k].assets[i]))
         => tracks'[k].assets = Append(tracks[k].assets, asset)]_vars

\* C22 witness: only clients have added assets, and a track holds two of
\* them that touch at an endpoint, the later one inserted first, both with
\* the start time and the duration they were added with
C22_Witness ==
  /\ script = <<>>
  /\ \E k \in 1..Len(tracks) :
       /\ Len(tracks[k].assets) = 2
       /\ AssetEnd(tracks[k].assets[2]) = tracks[k].assets[1].start_time
       /\ tracks[k].assets[1].duration = 3
       /\ tracks[k].assets[2].duration = 3

\* C23: an add_asset of an asset whose interval contains the interval of an
\* asset on the track (equal ends included) removes that asset and leaves
\* the new one on the track; if the track held only one asset and the new
\* one has the same interval, the track holds exactly the new asset.
C23_CoveredAssetRemoved ==
  [][\A track_id \in TrackIds : \A asset \in ClientAssets(track_id) :
       LET k == get_track(track_id) IN
       (AddAsset(track_id, asset) /\ k # NoTrack)
         => /\ \A i \in 1..Len(tracks[k].assets) :
                 LET old == tracks[k].assets[i] IN
                 (asset.start_time <= old.start_time /\ AssetEnd(asset) >= AssetEnd(old))
                   => old.id \notin AssetIds(tracks'[k].assets)
            /\ asset.id \in AssetIds(tracks'[k].assets)
            /\ (/\ Len(tracks[k].assets) = 1
                /\ tracks[k].assets[1].start_time = asset.start_time
                /\ tracks[k].assets[1].duration = asset.duration)
                 => tracks'[k].assets = <<asset>>]_vars

\* C23 witness: two assets were constructed by clients, nothing else was,
\* and the only asset on the timeline is the second one
C23_Witness ==
  /\ script = <<>>
  /\ uuids = 2
  /\ \E k \in 1..Len(tracks) :
       /\ Len(tracks[k].assets) = 1
       /\ tracks[k].assets[1].id = 2
       /\ \A m \in 1..Len(tracks) : m # k => tracks[m].assets = <<>>

C25_UnknownTrackRejected ==
  [][\A asset \in ClientAssets(UnknownTrack) :
       AddAsset(UnknownTrack, asset)
         => /\ ~add_asset_result(UnknownTrack)
            /\ UNCHANGED <<tracks, duration>>]_vars

\* C25 witness: a client has constructed an asset and passed it to
\* add_asset, and the timeline is as it was constructed
C25_Witness ==
  /\ uuids = 1
  /\ script = <<>>
  /\ \A k \in 1..Len(tracks) : tracks[k].assets = <<>>
  /\ duration = DefaultDuration

\* the lines of a script that are not blank
NonBlank(script_content) == SelectSeq(script_content, LAMBDA line : line # BlankLine)

\* a script made of marker lines, each followed by at least one line of
\* text that is not blank, with or without text before the first marker
MarkersWithText(script_content) ==
  LET lines == NonBlank(script_content) IN
  /\ lines # <<>>
  /\ \A i \in 1..Len(lines) :
       /\ lines[i].head # "["
       /\ lines[i].head \in Markers =>
            (i < Len(lines) /\ lines[i + 1].head \notin Markers)

\* the segment types such a script announces: main for the text before the
\* first marker, then the type of each marker in the order of the lines
RECURSIVE AnnouncedTypes(_)
AnnouncedTypes(lines) ==
  IF lines = <<>> THEN <<>>
  ELSE IF Head(lines).head \in Markers
    THEN <<MarkerType(Head(lines).head)>> \o AnnouncedTypes(Tail(lines))
    ELSE AnnouncedTypes(Tail(lines))

C27_OtherLinesAppended ==
  \A i \in 1..Len(script) :
    (script[i] # BlankLine /\ script[i].head \notin Markers)
      => \E k \in 1..Len(segments) : script[i] \in Range(segments[k].text)

\* C31: a step in which the Render Engine call of a job whose status is
\* still processing raises leaves the job failed, with the error's message
\* and completed_at set, out of active_jobs, in completed_jobs and appended
\* to the history, and leaves the worker at the test of its loop: the error
\* does not end the worker.
C31_RenderErrorFailsJob ==
  [][\A w \in Workers :
       LET j == workers[w].job IN
       (RenderRaise(w) /\ jobs[j].status = PROCESSING)
         => /\ jobs'[j].status = FAILED
            /\ jobs'[j].error = "error"
            /\ jobs'[j].completed_at = now'
            /\ j \notin Range(active_jobs')
            /\ j \in Range(completed_jobs')
            /\ job_history' = Append(job_history, j)
            /\ workers'[w].pc = LoopCheck(is_processing)
            /\ workers'[w].pc # "render"]_vars

\* C31 witness: the first job has failed at instant 1 and is in the
\* completed registry and the history only, the pool has never been stopped
\* and its worker has gone on to process the second job
C31_Witness ==
  /\ stops = 0
  /\ Len(workers) = max_concurrent_jobs
  /\ Len(jobs) = 2
  /\ jobs[1].status = FAILED
  /\ jobs[1].error = "error"
  /\ jobs[1].completed_at = 1
  /\ job_history = <<1>>
  /\ completed_jobs = <<1>>
  /\ active_jobs = <<2>>
  /\ jobs[2].status = PROCESSING

WithId(assets, id) == SelectSeq(assets, LAMBDA a : a.id = id)

\* C33: an add_asset of an asset that starts strictly inside an asset of the
\* track leaves that asset with its start and with the duration new.start -
\* old.start; if the new asset also ends before the old one ended, the track
\* holds the assets it held and the new one, one asset more, and nothing of
\* the old asset lies after the end of the new one.
C33_TailOverlapTruncates ==
  [][\A track_id \in TrackIds : \A asset \in ClientAssets(track_id) :
       LET k == get_track(track_id) IN
       (AddAsset(track_id, asset) /\ k # NoTrack)
         => \A i \in 1..Len(tracks[k].assets) :
              LET old == tracks[k].assets[i]
                  left == WithId(tracks'[k].assets, old.id) IN
              (old.start_time < asset.start_time /\ asset.start_time < AssetEnd(old))
                => /\ Len(left) = 1
                   /\ left[1].start_time = old.start_time
                   /\ left[1].duration = asset.start_time - old.start_time
                   /\ AssetEnd(asset) < AssetEnd(old) =>
                        /\ Len(tracks'[k].assets) = Len(tracks[k].assets) + 1
                        /\ AssetIds(tracks'[k].assets) =
                             AssetIds(tracks[k].assets) \cup {asset.id}
                        /\ \A m \in 1..Len(tracks'[k].assets) :
                             LET a == tracks'[k].assets[m] IN
                             a.id # asset.id => Disjoint(a, asset)]_vars

\* C33 witness: clients have constructed two assets; the first, which reached
\* from 1 to the end of the timeline, is cut to the start of the second,
\* which lies strictly inside it
C33_Witness ==
  /\ script = <<>>
  /\ uuids = 2
  /\ duration = DefaultDuration + 1
  /\ \E k \in 1..Len(tracks) :
       /\ Len(tracks[k].assets) = 2
       /\ tracks[k].assets[1].id = 1
       /\ tracks[k].assets[1].start_time = 1
       /\ tracks[k].assets[1].duration = 1
       /\ tracks[k].assets[2].start_time = 2
       /\ tracks[k].assets[2].duration = 1

RECURSIVE DurationOfFirst(_, _)
DurationOfFirst(segs, n) ==
  IF n = 0 THEN 0 ELSE DurationOfFirst(segs, n - 1) + segs[n].duration

\* C35: once create_from_script_and_voice has populated a freshly constructed
\* timeline from a script of k segments, the subtitle track and the first
\* video track hold k assets each, the i-th starting at the sum of the
\* durations of the segments before the i-th and lasting as long as the i-th
\* segment, the audio track holds one asset that starts at 0, and the
\* summary reports k segments and 2k + 1 assets.
C35_PopulateLaysOutSegments ==
  script # <<>> =>
    LET k == Len(segments)
        subtitles == tracks[FirstTrackOfType("subtitle")].assets
        backgrounds == tracks[FirstTrackOfType("video")].assets
        audio == tracks[FirstTrackOfType("audio")].assets
        summary == create_from_script_and_voice_result IN
    /\ segments = parse_script_segments(script)
    /\ Len(subtitles) = k
    /\ Len(backgrounds) = k
    /\ \A i \in 1..k :
         /\ subtitles[i].start_time = DurationOfFirst(segments, i - 1)
         /\ subtitles[i].duration = segments[i].duration
         /\ backgrounds[i].start_time = DurationOfFirst(segments, i - 1)
         /\ backgrounds[i].duration = segments[i].duration
    /\ Len(audio) = 1
    /\ audio[1].start_time = 0
    /\ summary.segments_processed = k
    /\ summary.assets_created = 2 * k + 1

\* C35 witness: the script of five markers, each followed by text, has been
\* laid out: five subtitles, five backgrounds and the voice, the last
\* subtitle starting after the four segments before it
C35_Witness ==
  /\ Len(script) = 12
  /\ Len(segments) = 5
  /\ create_from_script_and_voice_result.assets_created = 11
  /\ Len(tracks[3].assets) = 5
  /\ tracks[3].assets[5].start_time = 20 + 400 + 420 + 15
  /\ tracks[1].assets[2].duration = 400

\* C36: a step of apply_template_style with a known template id gives every
\* video or image asset the template's in and out transitions, whatever
\* transitions it had (so a second application leaves them as the first
\* did), and appends the template's effects to the asset's effects, whose
\* number grows by the number of the template's effects at each call; audio
\* and text assets, and the start time and the duration of every asset, are
\* as they were.  With an unknown id it returns false and changes nothing.
C36_TemplateReappliedAppendsEffects ==
  [][\A template_id \in TemplateIds :
       ApplyTemplateStyle(template_id) =>
         IF template_id \in {"minimal", "scientific", "storytelling"}
           THEN /\ apply_template_style_result(template_id)
                /\ Len(tracks') = Len(tracks)
                /\ duration' = duration
                /\ \A k \in 1..Len(tracks) :
                     /\ Len(tracks'[k].assets) = Len(tracks[k].assets)
                     /\ \A i \in 1..Len(tracks[k].assets) :
                          LET a == tracks[k].assets[i]
                              b == tracks'[k].assets[i]
                              template == templates[template_id] IN
                          /\ b.id = a.id
                          /\ b.start_time = a.start_time
                          /\ b.duration = a.duration
                          /\ a.type \in {"audio", "text"} => b = a
                          /\ a.type \in {"video", "image"} =>
                               /\ b.transitions.in = <<template.transitions, "_in">>
                               /\ b.transitions.out = <<template.transitions, "_out">>
                               /\ StyledAsset(b, template).transitions = b.transitions
                               /\ Len(b.effects) = Len(a.effects) + Len(template.effects)
                               /\ b.effects = a.effects \o template.effects
           ELSE /\ ~apply_template_style_result(template_id)
                /\ UNCHANGED <<tracks, duration, metadata>>]_vars

\* C36 witness: the scientific template has been applied twice to a
\* populated timeline: a background image carries the template's effect
\* twice and its transitions once, a subtitle and the voice carry neither
C36_Witness ==
  /\ metadata = "scientific"
  /\ script # <<>>
  /\ \E i \in 1..Len(tracks[1].assets) :
       LET a == tracks[1].assets[i] IN
       /\ a.name[1] = "Background"
       /\ a.effects = <<[type |-> "diagram_highlight"], [type |-> "diagram_highlight"]>>
       /\ a.transitions = [in |-> <<"slide", "_in">>, out |-> <<"slide", "_out">>]
  /\ \E i \in 1..Len(tracks[3].assets) :
       LET a == tracks[3].assets[i] IN
       /\ a.type = "text"
       /\ a.effects = <<>>
       /\ a.transitions = [in |-> NoTransition, out |-> NoTransition]
  /\ \E i \in 1..Len(tracks[2].assets) :
       LET a == tracks[2].assets[i] IN
       /\ a.type = "audio"
       /\ a.effects = <<>>

\* C37: each of the counters queued_jobs, processing_jobs, completed_jobs,
\* failed_jobs and cancelled_jobs of the stats is at least 0.
C37_CountersNonNegative ==
  /\ stats.queued_jobs >= 0
  /\ stats.processing_jobs >= 0
  /\ stats.completed_jobs >= 0
  /\ stats.failed_jobs >= 0
  /\ stats.cancelled_jobs >= 0

\* C38: total_jobs is the sum of the five status counters: every submitted
\* job is counted in exactly one of them, also after stop_batch_processing.
C38_TotalIsSumOfBuckets ==
  stats.total_jobs = stats.queued_jobs + stats.processing_jobs + stats.completed_jobs
                       + stats.failed_jobs + stats.cancelled_jobs

\* the pool self.worker_tasks holds has not been stopped: none of its
\* workers has been cancelled
PoolNotStopped == \A w \in worker_tasks : ~workers[w].cancel

\* C39: once the pool has been stopped and a later submit has started a new
\* pool, is_processing is true as long as a worker of the new pool is in its
\* loop and the pool has not been stopped again, and no job is in the queue
\* while every worker of that pool has left its loop.
C39_RestartedPoolKeepsRunning ==
  (stops >= 1 /\ Gen >= 2 /\ PoolNotStopped) =>
    /\ (\E w \in worker_tasks : workers[w].pc # "done") => is_processing
    /\ job_queue # {} => \E w \in worker_tasks : workers[w].pc # "done"

\* C40: the jobs in job_history are the jobs in completed_jobs, and every
\* job whose status is completed, failed or cancelled and that cleanup_old_jobs
\* has not pruned is in both.
C40_HistoryMatchesRegistry ==
  /\ Range(job_history) = Range(completed_jobs)
  /\ \A j \in JobIds :
       (jobs[j].status \in Terminal /\ j \notin pruned)
         => j \in Range(job_history) /\ j \in Range(completed_jobs)

====
